---- MODULE Spec2Model ----
(***************************************************************************)
(* Lazy loading of CUDA driver entry points (c10/cuda/driver_api.cpp).     *)
(*                                                                         *)
(* Shared state: driver_api_mutex, loaded_apis, cached_driver_version and, *)
(* per declared symbol, the function-local static entry_point of           *)
(* funcName##Loader::lazilyLoadAndInvoke together with its initialisation  *)
(* guard.  Threads call the lazy slots, initializeDriverAPI,               *)
(* isDriverAPIAvailable and getDriverVersion; lock, critical section and   *)
(* unlock are separate steps, as are the unsynchronised read and write of  *)
(* cached_driver_version, so all interleavings of the calls are explored.  *)
(* The generic DriverAPILoader template (lines 72-100) is never            *)
(* instantiated and has no part in the model.                              *)
(***************************************************************************)
EXTENDS Integers, FiniteSets, Sequences, TLC

\* ------------------------------------------------------------------ bounds

NumThreads == 2

MaxCalls == 2

Threads == 1..NumThreads

\* ------------------------------------------------- program configuration

\* driver_api.h:35-71: every symbol is declared with its minimum version; the
\* symbols of lines 66-71 are declared, with 12000, when CUDA_VERSION >= 12000.
Symbols == {"cuInit", "cuGetErrorString", "cuTensorMapEncodeTiled"}

DeclaredVersion(s) == IF s = "cuTensorMapEncodeTiled" THEN 12000 ELSE 11000

\* Versions a caller of isDriverAPIAvailable may ask for.
Versions == {11000, 12000}

\* Arguments a caller passes to a slot.
Args == {7}

CUDA_VERSION == 12060

CUDA_SUCCESS == 0

CUDA_ERROR_NO_DEVICE == 100

\* Statuses a native driver function may return.
Results == {CUDA_SUCCESS, CUDA_ERROR_NO_DEVICE}

\* Versions the installed driver may report (0: no driver installed).
RuntimeVersions == {0, 12040}

\* ------------------------------------------------------------ the driver

nullptr == <<"nullptr", 0>>

\* The address of the implementation of symbol s with ABI revision abi.
EntryPoint(s, abi) == <<s, abi>>

PtrName(p) == p[1]

\* How the installed driver exports a symbol: not at all, one implementation
\* for every version, or only from CUDA 12 on.
Kinds == {"absent", "present", "since12"}

\* cudaGetDriverEntryPointByVersion: the entry point of symbol for the given
\* CUDA version, nullptr standing for a failed lookup.
cudaGetDriverEntryPointByVersion(kind, symbol, version) ==
    CASE kind = "absent"    -> nullptr
      [] kind = "present"   -> EntryPoint(symbol, 11000)
      [] kind = "since12"   -> IF version >= 12000
                               THEN EntryPoint(symbol, 12000) ELSE nullptr

\* cudaGetDriverEntryPoint: the lookup without a version resolves against the
\* CUDA version the runtime was built for.
cudaGetDriverEntryPoint(kind, symbol) ==
    cudaGetDriverEntryPointByVersion(kind, symbol, CUDA_VERSION)

\* getDriverEntryPoint: a failed lookup is caught and becomes nullptr.
getDriverEntryPoint(kind, symbol, version) ==
    IF CUDA_VERSION >= 12050
    THEN cudaGetDriverEntryPointByVersion(kind, symbol, version)
    ELSE cudaGetDriverEntryPoint(kind, symbol)

\* The installed drivers considered: cuInit in every way, cuGetErrorString
\* absent or present, cuTensorMapEncodeTiled (an API introduced with CUDA 12)
\* absent or from CUDA 12 on.
Exports(s) ==
    CASE s = "cuInit"                 -> Kinds
      [] s = "cuGetErrorString"       -> {"absent", "present"}
      [] s = "cuTensorMapEncodeTiled" -> {"absent", "since12"}

\* ----------------------------------------------------------------- state

VARIABLES
    driver,                 \* environment: how the driver exports each symbol
    reportedVersion,        \* environment: the version the driver has reported
                            \* to a successful query, -1 before the first one
    driver_api_mutex,       \* 0 when free, else the thread that owns it
    loaded_apis,            \* the map name -> pointer (nullptr entries allowed)
    cached_driver_version,
    guard,                  \* per symbol: state of the static local's guard
    entry_point,            \* per symbol: the static local entry_point
    pc, op, sym, ver, arg,  \* per thread: position, operation and its inputs
    func_ptr,               \* per thread: the local func_ptr / entry_point
    ret, exc, warned,       \* per thread: result, exception, TORCH_WARN issued
    version,                \* per thread: the local version of getDriverVersion
    calls,                  \* operations started so far
    resolves,               \* history: Resolver invocations per <<path, name>>
    seen,                   \* history: per symbol, entry_point values observed
    native,                 \* per thread: the native call of its slot invocation
    queried,                \* per thread: outcome of its cudaDriverGetVersion
    startMemo               \* per thread: cached_driver_version at call start

env    == <<driver, reportedVersion>>
shared == <<driver_api_mutex, loaded_apis, cached_driver_version,
            guard, entry_point>>
local  == <<pc, op, sym, ver, arg, func_ptr, ret, exc, warned, version>>
hist   == <<calls, resolves, seen, native, queried, startMemo>>
vars   == <<env, shared, local, hist>>

NoError == <<"none", "">>

\* TORCH_CHECK(entry_point != nullptr, "CUDA driver API '", #funcName, ...)
NotAvailableError(s) == <<"c10::Error", s>>

\* std::mutex::lock on a mutex the thread owns, where the library detects it.
SystemError == <<"std::system_error", "">>

NoCall == [ptr |-> nullptr, args |-> 0, result |-> 0, count |-> 0]

Init ==
    /\ driver \in [Symbols -> Kinds]
    /\ \A s \in Symbols : driver[s] \in Exports(s)
    /\ reportedVersion = -1
    /\ driver_api_mutex = 0
    /\ loaded_apis = <<>>
    /\ cached_driver_version = -1
    /\ guard = [s \in Symbols |-> "uninit"]
    /\ entry_point = [s \in Symbols |-> nullptr]
    /\ pc = [t \in Threads |-> "idle"]
    /\ op = [t \in Threads |-> "none"]
    /\ sym = [t \in Threads |-> "cuInit"]
    /\ ver = [t \in Threads |-> 11000]
    /\ arg = [t \in Threads |-> 0]
    /\ func_ptr = [t \in Threads |-> nullptr]
    /\ ret = [t \in Threads |-> 0]
    /\ exc = [t \in Threads |-> NoError]
    /\ warned = [t \in Threads |-> FALSE]
    /\ calls = 0
    /\ version = [t \in Threads |-> 0]
    /\ resolves = [k \in {"slot", "probe"} \X Symbols \X Versions |-> 0]
    /\ seen = [s \in Symbols |-> {}]
    /\ native = [t \in Threads |-> NoCall]
    /\ queried = [t \in Threads |-> "no"]
    /\ startMemo = [t \in Threads |-> -1]

\* ------------------------------------------------------- starting a call

CanStart(t) == pc[t] = "idle" /\ calls < MaxCalls

\* A caller invokes the slot funcName (driver_api.cpp:143-144: the slot is
\* the address of funcName##Loader::lazilyLoadAndInvoke).
CallSlot(t, s, a) ==
    /\ CanStart(t)
    /\ calls' = calls + 1
    /\ pc' = [pc EXCEPT ![t] = "slot_enter"]
    /\ op' = [op EXCEPT ![t] = "slot"]
    /\ sym' = [sym EXCEPT ![t] = s]
    /\ arg' = [arg EXCEPT ![t] = a]
    /\ UNCHANGED <<env, shared, ver, func_ptr, ret, exc, warned, version,
                   resolves, seen, native, queried, startMemo>>

\* The call is over and its caller has taken the result: the thread's frame
\* is gone.
Finish(t) ==
    /\ pc[t] = "done"
    /\ pc' = [pc EXCEPT ![t] = "idle"]
    /\ op' = [op EXCEPT ![t] = "none"]
    /\ sym' = [sym EXCEPT ![t] = "cuInit"]
    /\ ver' = [ver EXCEPT ![t] = 11000]
    /\ arg' = [arg EXCEPT ![t] = 0]
    /\ func_ptr' = [func_ptr EXCEPT ![t] = nullptr]
    /\ ret' = [ret EXCEPT ![t] = 0]
    /\ exc' = [exc EXCEPT ![t] = NoError]
    /\ warned' = [warned EXCEPT ![t] = FALSE]
    /\ version' = [version EXCEPT ![t] = 0]
    /\ native' = [native EXCEPT ![t] = NoCall]
    /\ queried' = [queried EXCEPT ![t] = "no"]
    /\ startMemo' = [startMemo EXCEPT ![t] = -1]
    /\ UNCHANGED <<env, shared, calls, resolves, seen>>

\* ------------------------------------ funcName##Loader::lazilyLoadAndInvoke

\* Where control goes when the slot returns or throws.
AfterSlot(t) == IF op[t] = "init" THEN "init_resume" ELSE "done"

\* A static local without the thread-safe guard: nobody waits.
WaitsForInitialiser_Unguarded(g) == FALSE

\* A thread that reaches the static local while another thread runs its
\* initialiser waits for that thread (thread-safe static initialisation).
WaitsForInitialiser(g) == g = "running"

\* A static local whose initialiser runs on every call.
Initialised_Never(g) == FALSE

\* The static local has been initialised: its initialiser is skipped.
Initialised(g) == g = "done"

\* static auto* entry_point = ...: the first thread runs the initialiser, a
\* thread arriving while it runs waits, later threads skip it.
StaticGuard(t) ==
    /\ pc[t] = "slot_enter"
    /\ ~WaitsForInitialiser(guard[sym[t]])
    /\ IF ~Initialised(guard[sym[t]])
       THEN /\ guard' = [guard EXCEPT ![sym[t]] = "running"]
            /\ pc' = [pc EXCEPT ![t] = "slot_lock"]
       ELSE /\ pc' = [pc EXCEPT ![t] = "slot_check"]
            /\ UNCHANGED guard
    /\ UNCHANGED <<env, driver_api_mutex, loaded_apis, cached_driver_version,
                   entry_point, op, sym, ver, arg, func_ptr, ret, exc, warned,
                   version, hist>>

\* A lock that never blocks.
Lockable_Always(m) == TRUE

\* std::lock_guard's constructor returns once the mutex is free.
Lockable(m) == m = 0

\* std::lock_guard<std::mutex> lock(driver_api_mutex) in the initialiser.
SlotLock(t) ==
    /\ pc[t] = "slot_lock"
    /\ Lockable(driver_api_mutex)
    /\ driver_api_mutex' = t
    /\ pc' = [pc EXCEPT ![t] = "slot_load"]
    /\ UNCHANGED <<env, loaded_apis, cached_driver_version, guard, entry_point,
                   op, sym, ver, arg, func_ptr, ret, exc, warned, version, hist>>

\* The same lock taken by a thread that owns the mutex (initializeDriverAPI
\* holds it while it calls cuInit and cuGetErrorString).  The behaviour is
\* undefined: the thread blocks forever, or the library detects the relock
\* and throws, which leaves the static local uninitialised.
SlotRelock(t) ==
    /\ pc[t] = "slot_lock"
    /\ driver_api_mutex = t
    /\ \/ /\ pc' = [pc EXCEPT ![t] = "self_deadlock"]
          /\ UNCHANGED <<guard, exc>>
       \/ /\ guard' = [guard EXCEPT ![sym[t]] = "uninit"]
          /\ exc' = [exc EXCEPT ![t] = SystemError]
          /\ pc' = [pc EXCEPT ![t] = AfterSlot(t)]
    /\ UNCHANGED <<env, driver_api_mutex, loaded_apis, cached_driver_version,
                   entry_point, op, sym, ver, arg, func_ptr, ret, warned, version,
                   hist>>

\* A lookup that never finds an entry.
Found_Never(tbl, name) == FALSE

\* loaded_apis.find(name) != loaded_apis.end()
Found(tbl, name) == name \in DOMAIN tbl

\* An initialiser that resolves and never stores.
SlotStore_Never(tbl, name, p) == tbl

\* loaded_apis[#funcName] = func_ptr, done only for a pointer that is not null.
SlotStore(tbl, name, p) ==
    IF p # nullptr
    THEN [n \in DOMAIN tbl \cup {name} |-> IF n = name THEN p ELSE tbl[n]]
    ELSE tbl

\* Under the lock: adopt the entry of loaded_apis, else ask the driver.
SlotLoad(t) ==
    /\ pc[t] = "slot_load"
    /\ LET s == sym[t] IN
       IF Found(loaded_apis, s)
       THEN /\ func_ptr' = [func_ptr EXCEPT ![t] = loaded_apis[s]]
            /\ UNCHANGED <<loaded_apis, resolves>>
       ELSE LET p == getDriverEntryPoint(driver[s], s, DeclaredVersion(s)) IN
            /\ func_ptr' = [func_ptr EXCEPT ![t] = p]
            /\ loaded_apis' = SlotStore(loaded_apis, s, p)
            /\ resolves' = [resolves EXCEPT
                               ![<<"slot", s, DeclaredVersion(s)>>] = @ + 1]
    /\ pc' = [pc EXCEPT ![t] = "slot_publish"]
    /\ UNCHANGED <<env, driver_api_mutex, cached_driver_version, guard,
                   entry_point, op, sym, ver, arg, ret, exc, warned, version,
                   calls, seen, native, queried, startMemo>>

\* The initialiser returns: the lock_guard releases the mutex and the static
\* local holds the returned pointer from now on.
SlotPublish(t) ==
    /\ pc[t] = "slot_publish"
    /\ driver_api_mutex' = 0
    /\ entry_point' = [entry_point EXCEPT ![sym[t]] = func_ptr[t]]
    /\ guard' = [guard EXCEPT ![sym[t]] = "done"]
    /\ func_ptr' = [func_ptr EXCEPT ![t] = nullptr]
    /\ pc' = [pc EXCEPT ![t] = "slot_check"]
    /\ UNCHANGED <<env, loaded_apis, cached_driver_version, op, sym, ver, arg,
                   ret, exc, warned, version, hist>>

\* TORCH_CHECK(entry_point != nullptr, ...)
SlotCheck(t) ==
    /\ pc[t] = "slot_check"
    /\ seen' = [seen EXCEPT ![sym[t]] = @ \cup {entry_point[sym[t]]}]
    /\ IF entry_point[sym[t]] # nullptr
       THEN /\ pc' = [pc EXCEPT ![t] = "slot_invoke"]
            /\ UNCHANGED exc
       ELSE /\ pc' = [pc EXCEPT ![t] = AfterSlot(t)]
            /\ exc' = [exc EXCEPT ![t] = NotAvailableError(sym[t])]
    /\ UNCHANGED <<env, shared, op, sym, ver, arg, func_ptr, ret, warned,
                   version, calls, resolves, native, queried,
                   startMemo>>

\* A call that does not forward the caller's arguments.
NativeCall_DropsArgs(p, a, r) ==
    [ptr |-> p, args |-> 0, result |-> r, count |-> 1]

\* What the native function is called with and what it returned.
NativeCall(p, a, r) == [ptr |-> p, args |-> a, result |-> r, count |-> 1]

\* What the slot hands back to its caller.
SlotResult(r) == r

\* return entry_point(args...)
SlotInvoke(t) ==
    /\ pc[t] = "slot_invoke"
    /\ \E r \in Results :
          /\ native' = [native EXCEPT ![t] =
                 [NativeCall(entry_point[sym[t]], arg[t], r)
                    EXCEPT !.count = native[t].count + 1]]
          /\ ret' = [ret EXCEPT ![t] = SlotResult(r)]
    /\ pc' = [pc EXCEPT ![t] = AfterSlot(t)]
    /\ UNCHANGED <<env, shared, op, sym, ver, arg, func_ptr, exc, warned,
                   version, calls, resolves, seen, queried, startMemo>>

\* ----------------------------------------------------- initializeDriverAPI

CallInitializeDriverAPI(t) ==
    /\ CanStart(t)
    /\ calls' = calls + 1
    /\ pc' = [pc EXCEPT ![t] = "init_lock"]
    /\ op' = [op EXCEPT ![t] = "init"]
    /\ UNCHANGED <<env, shared, sym, ver, arg, func_ptr, ret, exc, warned,
                   version, resolves, seen, native, queried,
                   startMemo>>

\* std::lock_guard<std::mutex> lock(driver_api_mutex); then, still holding
\* the mutex, CUresult result = cuInit(0) through the slot.
InitLock(t) ==
    /\ pc[t] = "init_lock"
    /\ Lockable(driver_api_mutex)
    /\ driver_api_mutex' = t
    /\ sym' = [sym EXCEPT ![t] = "cuInit"]
    /\ arg' = [arg EXCEPT ![t] = 0]
    /\ pc' = [pc EXCEPT ![t] = "slot_enter"]
    /\ UNCHANGED <<env, loaded_apis, cached_driver_version, guard, entry_point,
                   op, ver, func_ptr, ret, exc, warned, version, hist>>

\* A handler that catches c10::Error only.
InitCatches_C10ErrorOnly(e) == e[1] = "c10::Error"

\* catch (...): what the handler of initializeDriverAPI catches.
InitCatches(e) == e # NoError

\* The slot called by initializeDriverAPI has returned or thrown.
InitResume(t) ==
    /\ pc[t] = "init_resume"
    /\ IF exc[t] # NoError
       THEN \* an exception unwinds to the handler, or past it
            /\ IF InitCatches(exc[t])
               THEN /\ warned' = [warned EXCEPT ![t] = TRUE]
                    /\ exc' = [exc EXCEPT ![t] = NoError]
               ELSE UNCHANGED <<warned, exc>>
            /\ driver_api_mutex' = 0
            /\ pc' = [pc EXCEPT ![t] = "done"]
            /\ UNCHANGED <<sym, arg, native>>
       ELSE IF sym[t] = "cuInit" /\ ret[t] # CUDA_SUCCESS
       THEN \* cuGetErrorString(result, &error_string) through the slot
            /\ sym' = [sym EXCEPT ![t] = "cuGetErrorString"]
            /\ arg' = [arg EXCEPT ![t] = ret[t]]
            /\ native' = [native EXCEPT ![t] = NoCall]
            /\ pc' = [pc EXCEPT ![t] = "slot_enter"]
            /\ UNCHANGED <<driver_api_mutex, warned, exc>>
       ELSE \* success, or TORCH_WARN("Failed to initialize CUDA driver: ")
            /\ warned' = [warned EXCEPT ![t] = (sym[t] = "cuGetErrorString")]
            /\ driver_api_mutex' = 0
            /\ pc' = [pc EXCEPT ![t] = "done"]
            /\ UNCHANGED <<sym, arg, native, exc>>
    /\ UNCHANGED <<env, loaded_apis, cached_driver_version, guard, entry_point,
                   op, ver, func_ptr, ret, version, calls, resolves, seen,
                   queried, startMemo>>

\* ---------------------------------------------------- isDriverAPIAvailable

\* The bool isDriverAPIAvailable returns, as the value a caller reads.
Bool(b) == IF b THEN 1 ELSE 0

CallIsDriverAPIAvailable(t, funcName, minVersion) ==
    /\ CanStart(t)
    /\ calls' = calls + 1
    /\ pc' = [pc EXCEPT ![t] = "avail_lock"]
    /\ op' = [op EXCEPT ![t] = "avail"]
    /\ sym' = [sym EXCEPT ![t] = funcName]
    /\ ver' = [ver EXCEPT ![t] = minVersion]
    /\ UNCHANGED <<env, shared, arg, func_ptr, ret, exc, warned, version,
                   resolves, seen, native, queried, startMemo>>

AvailLock(t) ==
    /\ pc[t] = "avail_lock"
    /\ Lockable(driver_api_mutex)
    /\ driver_api_mutex' = t
    /\ pc' = [pc EXCEPT ![t] = "avail_load"]
    /\ UNCHANGED <<env, loaded_apis, cached_driver_version, guard, entry_point,
                   op, sym, ver, arg, func_ptr, ret, exc, warned, version, hist>>

\* A store that, like the slot's, skips a null pointer.
AvailStore_NonNullOnly(tbl, name, p) ==
    IF p # nullptr
    THEN [n \in DOMAIN tbl \cup {name} |-> IF n = name THEN p ELSE tbl[n]]
    ELSE tbl

\* loaded_apis[funcName] = entry_point, whatever the pointer is.
AvailStore(tbl, name, p) ==
    [n \in DOMAIN tbl \cup {name} |-> IF n = name THEN p ELSE tbl[n]]

\* Under the lock: answer from loaded_apis, else ask the driver and store.
AvailLoad(t) ==
    /\ pc[t] = "avail_load"
    /\ LET s == sym[t] IN
       IF Found(loaded_apis, s)
       THEN /\ ret' = [ret EXCEPT ![t] = Bool(loaded_apis[s] # nullptr)]
            /\ UNCHANGED <<loaded_apis, resolves, func_ptr>>
       ELSE LET p == getDriverEntryPoint(driver[s], s, ver[t]) IN
            /\ func_ptr' = [func_ptr EXCEPT ![t] = p]
            /\ loaded_apis' = AvailStore(loaded_apis, s, p)
            /\ resolves' = [resolves EXCEPT ![<<"probe", s, ver[t]>>] = @ + 1]
            /\ ret' = [ret EXCEPT ![t] = Bool(p # nullptr)]
    /\ pc' = [pc EXCEPT ![t] = "avail_return"]
    /\ UNCHANGED <<env, driver_api_mutex, cached_driver_version, guard,
                   entry_point, op, sym, ver, arg, exc, warned, version,
                   calls, seen, native, queried, startMemo>>

\* The function returns and its lock_guard releases the mutex.
AvailReturn(t) ==
    /\ pc[t] = "avail_return"
    /\ driver_api_mutex' = 0
    /\ pc' = [pc EXCEPT ![t] = "done"]
    /\ UNCHANGED <<env, loaded_apis, cached_driver_version, guard, entry_point,
                   op, sym, ver, arg, func_ptr, ret, exc, warned, version, hist>>

\* --------------------------------------------------------- getDriverVersion

CallGetDriverVersion(t) ==
    /\ CanStart(t)
    /\ calls' = calls + 1
    /\ pc' = [pc EXCEPT ![t] = "gv_check"]
    /\ op' = [op EXCEPT ![t] = "version"]
    /\ startMemo' = [startMemo EXCEPT ![t] = cached_driver_version]
    /\ UNCHANGED <<env, shared, sym, ver, arg, func_ptr, ret, exc, warned,
                   version, resolves, seen, native, queried>>

\* A check that takes version 0 for "not yet queried".
VersionIsCached_Positive(c) == c > 0

\* if (cached_driver_version >= 0)
VersionIsCached(c) == c >= 0

\* The unsynchronised read of cached_driver_version: it races with
\* VersionStore and sees the value from before or after the write.
VersionCheck(t) ==
    /\ pc[t] = "gv_check"
    /\ IF VersionIsCached(cached_driver_version)
       THEN /\ ret' = [ret EXCEPT ![t] = cached_driver_version]
            /\ pc' = [pc EXCEPT ![t] = "done"]
       ELSE /\ pc' = [pc EXCEPT ![t] = "gv_query"]
            /\ UNCHANGED ret
    /\ UNCHANGED <<env, shared, op, sym, ver, arg, func_ptr, exc, warned,
                   version, hist>>

\* A handler that memoises the initial value of the local version.
VersionQueryFailed_Memoised(c) == [cached |-> 0, result |-> -1]

\* catch (const c10::Error&): the memoised version and the value returned
\* when the query has failed.
VersionQueryFailed(c) == [cached |-> c, result |-> -1]

\* C10_CUDA_CHECK(cudaDriverGetVersion(&version)) succeeds or throws.  The
\* driver reports the same version for the life of the process.
VersionQuery(t) ==
    /\ pc[t] = "gv_query"
    /\ \/ /\ \E v \in RuntimeVersions :
                /\ reportedVersion \in {-1, v}
                /\ reportedVersion' = v
                /\ version' = [version EXCEPT ![t] = v]
          /\ queried' = [queried EXCEPT ![t] = "ok"]
          /\ pc' = [pc EXCEPT ![t] = "gv_store"]
          /\ UNCHANGED <<cached_driver_version, ret, warned>>
       \/ /\ queried' = [queried EXCEPT ![t] = "failed"]
          /\ cached_driver_version' =
                 VersionQueryFailed(cached_driver_version).cached
          /\ ret' = [ret EXCEPT ![t] =
                 VersionQueryFailed(cached_driver_version).result]
          /\ warned' = [warned EXCEPT ![t] = TRUE]
          /\ pc' = [pc EXCEPT ![t] = "done"]
          /\ UNCHANGED <<version, reportedVersion>>
    /\ UNCHANGED <<driver, driver_api_mutex, loaded_apis, guard, entry_point,
                   op, sym, ver, arg, func_ptr, exc, calls, resolves, seen,
                   native, startMemo>>

\* cached_driver_version = version; return version; without the mutex.
VersionStore(t) ==
    /\ pc[t] = "gv_store"
    /\ cached_driver_version' = version[t]
    /\ ret' = [ret EXCEPT ![t] = version[t]]
    /\ pc' = [pc EXCEPT ![t] = "done"]
    /\ UNCHANGED <<env, driver_api_mutex, loaded_apis, guard, entry_point, op,
                   sym, ver, arg, func_ptr, exc, warned, version, hist>>

\* ------------------------------------------------------------ the system

\* Every step thread t can take.
ThreadNext(t) ==
    \/ \E s \in Symbols, a \in Args : CallSlot(t, s, a)
    \/ CallInitializeDriverAPI(t)
    \/ \E s \in Symbols, v \in Versions : CallIsDriverAPIAvailable(t, s, v)
    \/ CallGetDriverVersion(t)
    \/ Finish(t)
    \/ StaticGuard(t)
    \/ SlotLock(t)
    \/ SlotRelock(t)
    \/ SlotLoad(t)
    \/ SlotPublish(t)
    \/ SlotCheck(t)
    \/ SlotInvoke(t)
    \/ InitLock(t)
    \/ InitResume(t)
    \/ AvailLock(t)
    \/ AvailLoad(t)
    \/ AvailReturn(t)
    \/ VersionCheck(t)
    \/ VersionQuery(t)
    \/ VersionStore(t)

Next == \E t \in Threads : ThreadNext(t)

Spec == Init /\ [][Next]_vars

\* The scheduler lets every thread that can take a step take one eventually.
FairSpec == Spec /\ \A t \in Threads : WF_vars(ThreadNext(t))

\* ------------------------------------------------------------- properties

\* Resolver invocations made for name s by the slot, by the probe.
SlotResolves(s) ==
    resolves[<<"slot", s, 11000>>] + resolves[<<"slot", s, 12000>>]

ProbeResolves(s) ==
    resolves[<<"probe", s, 11000>>] + resolves[<<"probe", s, 12000>>]

\* Thread t is inside, or has just left, an invocation of the slot s.
InSlot(t, s) ==
    /\ sym[t] = s
    /\ \/ op[t] = "slot"
       \/ op[t] = "init" /\ pc[t] \notin {"init_lock", "done"}

\* An invocation of the slot by thread t has ended (returned or thrown).
SlotEnded(t) ==
    \/ op[t] = "slot" /\ pc[t] = "done"
    \/ op[t] = "init" /\ pc[t] = "init_resume"

\* C1: for every declared symbol the slot path invokes the Resolver at most
\* once, however many threads invoke the slot and however they interleave,
\* and all invocations observe the same value of the memoised entry_point.
C1_SingleResolutionPerSlot ==
    \A s \in Symbols :
       /\ SlotResolves(s) <= 1
       /\ Cardinality(seen[s]) <= 1

\* C1 witness: two threads raced on the first call of the same slot, one
\* resolution was made and both have observed the pointer.
C1_Witness ==
    \E s \in Symbols :
       /\ calls = 2
       /\ SlotResolves(s) = 1
       /\ seen[s] # {}
       /\ \A t \in Threads :
             op[t] = "slot" /\ sym[t] = s /\ pc[t] \in {"slot_invoke", "done"}

\* C2: initializeDriverAPI called as the first operation of the process, with
\* cuInit resolvable, neither blocks on the mutex it holds itself nor ends
\* with a warning: it returns normally after a cuInit call.
C2_InitializeFirstSucceeds ==
    \A t \in Threads :
       (/\ op[t] = "init"
        /\ calls = 1
        /\ driver["cuInit"] = "present")
       => /\ pc[t] # "self_deadlock"
          /\ pc[t] = "done" =>
                /\ exc[t] = NoError
                /\ native[t].count >= 1
                /\ (ret[t] = CUDA_SUCCESS => ~warned[t])

\* C3: when the driver exports no entry point for s, every invocation of the
\* slot s ends in the hard error naming s without a native call, the slot
\* path resolves at most once, and isDriverAPIAvailable(s, v) returns false.
C3_UnavailableHardFails ==
    \A t \in Threads :
       driver[sym[t]] = "absent" =>
          /\ SlotEnded(t) =>
                /\ exc[t] = NotAvailableError(sym[t])
                /\ native[t].count = 0
          /\ SlotResolves(sym[t]) <= 1
          /\ (op[t] = "avail" /\ pc[t] = "done") => ret[t] = Bool(FALSE)

\* C4: isDriverAPIAvailable never raises; for a name with an entry it returns
\* (entry # nullptr) without a Resolver call and without changing the table;
\* otherwise it calls the Resolver once with (name, minVersion), stores the
\* outcome, nullptr included, as the entry of the name and returns
\* (outcome # nullptr).
C4_ProbeContract ==
    /\ [](\A t \in Threads :
            op[t] = "avail" =>
               /\ exc[t] = NoError
               /\ pc[t] \in {"avail_return", "done"} =>
                     /\ sym[t] \in DOMAIN loaded_apis
                     /\ ret[t] = Bool(loaded_apis[sym[t]] # nullptr))
    /\ [][\A t \in Threads :
            (pc[t] = "avail_load" /\ pc'[t] # "avail_load") =>
               LET n == sym[t] IN
               IF n \in DOMAIN loaded_apis
               THEN /\ loaded_apis' = loaded_apis
                    /\ resolves' = resolves
                    /\ ret'[t] = Bool(loaded_apis[n] # nullptr)
               ELSE /\ DOMAIN loaded_apis' = DOMAIN loaded_apis \cup {n}
                    /\ \A m \in DOMAIN loaded_apis :
                          loaded_apis'[m] = loaded_apis[m]
                    /\ loaded_apis'[n] =
                          getDriverEntryPoint(driver[n], n, ver[t])
                    /\ resolves' =
                          [resolves EXCEPT ![<<"probe", n, ver[t]>>] = @ + 1]
                    /\ ret'[t] = Bool(loaded_apis'[n] # nullptr)]_vars

\* C4 witness: a probe of a name the driver does not export has returned
\* false after one Resolver call and the table holds a null entry for it.
C4_Witness ==
    \E t \in Threads :
       /\ op[t] = "avail" /\ pc[t] = "done"
       /\ driver[sym[t]] = "absent"
       /\ ret[t] = Bool(FALSE)
       /\ ProbeResolves(sym[t]) = 1
       /\ sym[t] \in DOMAIN loaded_apis
       /\ loaded_apis[sym[t]] = nullptr

\* C5: a getDriverVersion call that starts once a version v >= 0 is memoised
\* returns v without querying the runtime, and a memoised version never
\* changes.
C5_VersionMemoized ==
    /\ [](\A t \in Threads :
            (op[t] = "version" /\ pc[t] = "done" /\ startMemo[t] >= 0) =>
               /\ ret[t] = startMemo[t]
               /\ queried[t] = "no")
    /\ [][cached_driver_version >= 0 =>
             cached_driver_version' = cached_driver_version]_vars

\* C5 witness: a call that started after a version was memoised has returned
\* it.
C5_Witness ==
    \E t \in Threads :
       /\ op[t] = "version" /\ pc[t] = "done"
       /\ startMemo[t] >= 0
       /\ ret[t] = cached_driver_version

\* C6: a getDriverVersion call whose query fails returns a negative value
\* without raising and does not write cached_driver_version, which is -1 for
\* as long as no query has succeeded; a call skips the query only for a
\* memoised version >= 0.
C6_FailureNotMemoized ==
    /\ [](/\ reportedVersion = -1 => cached_driver_version = -1
          /\ \A t \in Threads :
                (op[t] = "version" /\ pc[t] = "done") =>
                   /\ exc[t] = NoError
                   /\ queried[t] = "failed" => ret[t] < 0
                   /\ queried[t] = "no" => ret[t] >= 0)
    /\ [][\A t \in Threads :
            (queried[t] = "no" /\ queried'[t] = "failed") =>
               cached_driver_version' = cached_driver_version]_vars

\* C6 witness: a call has failed and returned -1, the memoised version is
\* still -1 and another call is about to query the runtime again.
C6_Witness ==
    \E t, u \in Threads :
       /\ op[t] = "version" /\ pc[t] = "done" /\ queried[t] = "failed"
       /\ ret[t] = -1
       /\ cached_driver_version = -1
       /\ op[u] = "version" /\ pc[u] = "gv_query"

C9_ForwardsToAdoptedPointer ==
    \A t \in Threads :
       /\ (SlotEnded(t) /\ exc[t] = NoError) =>
             /\ native[t].count = 1
             /\ native[t].ptr # nullptr
             /\ native[t].ptr = entry_point[sym[t]]
             /\ PtrName(native[t].ptr) = sym[t]
             /\ sym[t] \in DOMAIN loaded_apis
             /\ loaded_apis[sym[t]] = native[t].ptr
             /\ native[t].args = arg[t]
             /\ ret[t] = native[t].result
       /\ (SlotEnded(t) /\ exc[t] = NotAvailableError(sym[t])) =>
             /\ guard[sym[t]] = "done"
             /\ entry_point[sym[t]] = nullptr
             /\ native[t].count = 0

\* C9 witness: a caller's invocation has returned the result of the native
\* function, called with the caller's argument.
C9_Witness ==
    \E t \in Threads :
       /\ op[t] = "slot" /\ pc[t] = "done" /\ exc[t] = NoError
       /\ native[t].count = 1
       /\ native[t].args = 7
       /\ ret[t] = CUDA_ERROR_NO_DEVICE

\* C10: once the slot s has resolved its name, loaded_apis holds an entry for
\* s equal to what the Resolver returned, nullptr included.
C10_SlotRecordsOutcome ==
    \A s \in Symbols :
       (SlotResolves(s) >= 1 /\ guard[s] = "done") =>
          /\ s \in DOMAIN loaded_apis
          /\ loaded_apis[s] = entry_point[s]

\* Thread t is at the start of an invocation of the slot s that nobody has
\* initialised yet.
AtFirstCall(t, s) ==
    /\ pc[t] = "slot_enter"
    /\ sym[t] = s
    /\ guard[s] = "uninit"

\* C8: when two or more threads make the first call to the same unresolved
\* slot at the same time, each of them eventually ends its invocation.
C8_FirstUseRaceTerminates ==
    \A s \in Symbols : \A t \in Threads : \A u \in Threads \ {t} :
       (AtFirstCall(t, s) /\ AtFirstCall(u, s)) ~> SlotEnded(t)

\* C11: for every name, the Resolver is invoked at most once in the life of
\* the process, counting the invocations of the slot and of
\* isDriverAPIAvailable together, whether the lookup succeeded or failed.
C11_ResolvedOncePerName ==
    \A s \in Symbols : SlotResolves(s) + ProbeResolves(s) <= 1

\* Thread t takes a step.
Steps(t) == pc'[t] # pc[t]

\* C12: every step that changes loaded_apis or cached_driver_version is taken
\* by a thread that owns driver_api_mutex.
C12_WritesUnderMutex ==
    [][(loaded_apis' # loaded_apis
          \/ cached_driver_version' # cached_driver_version)
       => \E t \in Threads : Steps(t) /\ driver_api_mutex = t]_vars

\* C13: cached_driver_version is assigned only while it still is -1, and a
\* cudaDriverGetVersion query succeeds only if none has succeeded before.
C13_VersionSetOnce ==
    [][\A t \in Threads :
          /\ (pc[t] = "gv_store" /\ pc'[t] = "done")
                => cached_driver_version = -1
          /\ (pc[t] = "gv_query" /\ pc'[t] = "gv_store")
                => reportedVersion = -1]_vars

\* Thread t is between taking and releasing driver_api_mutex in a slot's
\* initialiser or in isDriverAPIAvailable: about to look the name up and
\* resolve it, or about to return what it found.
InCriticalSection(t) ==
    pc[t] \in {"slot_load", "slot_publish", "avail_load", "avail_return"}

\* C14: a thread that looks a name up in loaded_apis, inserts it or invokes
\* the Resolver owns driver_api_mutex; at most one thread is doing so at any
\* moment, whatever the symbols; and every step that invokes the Resolver or
\* changes loaded_apis is taken by the owner of the mutex.
C14_ResolutionUnderMutex ==
    /\ [](/\ \A t \in Threads : InCriticalSection(t) => driver_api_mutex = t
          /\ Cardinality({t \in Threads : InCriticalSection(t)}) <= 1)
    /\ [][(resolves' # resolves \/ loaded_apis' # loaded_apis)
          => \E t \in Threads : Steps(t) /\ driver_api_mutex = t]_vars

\* A thread has resolved one symbol in its slot's initialiser and still owns
\* the mutex while another thread, calling for another symbol, waits for it.
C14_Witness ==
    \E t \in Threads : \E u \in Threads \ {t} :
       /\ pc[t] = "slot_publish"
       /\ SlotResolves(sym[t]) = 1
       /\ driver_api_mutex = t
       /\ pc[u] \in {"slot_lock", "avail_lock"}
       /\ sym[u] # sym[t]

\* C15: loaded_apis holds one entry per name, and an entry, once made, is
\* never removed and never changes, whatever slots are called and whatever
\* names and versions isDriverAPIAvailable is asked about.
C15_TableStable ==
    [][\A n \in DOMAIN loaded_apis :
          /\ n \in DOMAIN loaded_apis'
          /\ loaded_apis'[n] = loaded_apis[n]]_vars

\* A symbol the driver exports from CUDA 12 on was probed with 11000, which
\* stored nullptr; a later probe with 12000, which the driver would resolve,
\* has answered from the entry and left it as it was.
C15_Witness ==
    \E t \in Threads : \E s \in Symbols :
       /\ op[t] = "avail" /\ pc[t] = "done"
       /\ sym[t] = s /\ ver[t] = 12000
       /\ driver[s] = "since12"
       /\ resolves[<<"probe", s, 11000>>] = 1
       /\ ProbeResolves(s) = 1
       /\ s \in DOMAIN loaded_apis
       /\ loaded_apis[s] = nullptr
       /\ ret[t] = Bool(FALSE)

\* Thread t is in the initialiser of a slot's static entry_point, the only
\* part of a slot that takes the mutex, reads or writes loaded_apis and
\* invokes the Resolver.
InInitialiser(t) ==
    pc[t] \in {"slot_lock", "slot_load", "slot_publish", "self_deadlock"}

\* C16: once the static entry_point of a slot is initialised it stays
\* initialised and keeps its value in every step of every thread, the slot
\* resolves no more, and no thread is in the initialiser of such a slot.
C16_SlotPermanent ==
    /\ [](\A t \in Threads : InInitialiser(t) => guard[sym[t]] = "running")
    /\ [][\A s \in Symbols :
             guard[s] = "done" =>
                /\ guard'[s] = "done"
                /\ entry_point'[s] = entry_point[s]
                /\ SlotResolves(s)' = SlotResolves(s)]_vars

\* Every thread has called the same slot and reached the native function
\* through the one pointer the slot holds, after a single resolution: the
\* invocations other than the initialising one skipped the initialiser.
C16_Witness ==
    \E s \in Symbols :
       /\ guard[s] = "done"
       /\ entry_point[s] # nullptr
       /\ SlotResolves(s) = 1
       /\ ProbeResolves(s) = 0
       /\ \A t \in Threads :
             /\ op[t] = "slot" /\ pc[t] = "done" /\ sym[t] = s
             /\ native[t].count = 1
             /\ native[t].ptr = entry_point[s]

\* Pointer p is what a completed Resolver invocation for name n returned, and
\* loaded_apis holds it for n.
ResolvedAndStored(n, p) ==
    /\ \E k \in {"slot", "probe"} : \E v \in Versions :
          /\ resolves[<<k, n, v>>] >= 1
          /\ p = getDriverEntryPoint(driver[n], n, v)
    /\ n \in DOMAIN loaded_apis
    /\ loaded_apis[n] = p

\* C17: every pointer that is not null and that a thread holds, calls or can
\* read (an entry of loaded_apis, a slot's entry_point, the pointer an
\* initialiser is about to publish, the pointer of a native call in progress
\* or made, the entry behind a probe's answer "available") was returned by a
\* completed Resolver invocation for that name and stored in loaded_apis.
C17_ResolutionThenUse ==
    /\ \A n \in DOMAIN loaded_apis :
          loaded_apis[n] # nullptr => ResolvedAndStored(n, loaded_apis[n])
    /\ \A s \in Symbols :
          entry_point[s] # nullptr =>
             guard[s] = "done" /\ ResolvedAndStored(s, entry_point[s])
    /\ \A t \in Threads :
          /\ func_ptr[t] # nullptr => ResolvedAndStored(sym[t], func_ptr[t])
          /\ pc[t] = "slot_invoke" =>
                entry_point[sym[t]] # nullptr /\ guard[sym[t]] = "done"
          /\ native[t].count > 0 =>
                /\ native[t].ptr # nullptr
                /\ ResolvedAndStored(PtrName(native[t].ptr), native[t].ptr)
          /\ (op[t] = "avail" /\ pc[t] \in {"avail_return", "done"}
                /\ ret[t] = Bool(TRUE)) =>
                /\ sym[t] \in DOMAIN loaded_apis
                /\ loaded_apis[sym[t]] # nullptr

\* A thread has called the native function through a slot that adopted the
\* pointer an earlier isDriverAPIAvailable had resolved and stored.
C17_Witness ==
    \E t \in Threads :
       /\ op[t] = "slot" /\ pc[t] = "done"
       /\ native[t].count = 1
       /\ ProbeResolves(sym[t]) = 1
       /\ SlotResolves(sym[t]) = 0
       /\ native[t].ptr = loaded_apis[sym[t]]

\* C18: if the driver resolves a declared symbol at its declared minimum
\* version, no invocation of its slot ends with the "not available" error,
\* whatever versions isDriverAPIAvailable was asked about before.
C18_AvailabilityByDeclaredVersion ==
    \A s \in Symbols :
       getDriverEntryPoint(driver[s], s, DeclaredVersion(s)) # nullptr =>
          \A t \in Threads :
             (InSlot(t, s) /\ SlotEnded(t)) => exc[t] # NotAvailableError(s)

\* C19: a slot that has completed its first-use resolution and loaded_apis,
\* where it has an entry for the slot's name, hold the same pointer.
C19_ProbeAndSlotAgree ==
    \A s \in Symbols :
       (guard[s] = "done" /\ s \in DOMAIN loaded_apis) =>
          entry_point[s] = loaded_apis[s]

====
